---- MODULE Spec2Model ----
(***************************************************************************)
(* A model of perf_record_newrelic.c: the wrapper that runs a program      *)
(* under `perf record`, parses `perf report` and sends the per-symbol      *)
(* durations to New Relic as attributes of one transaction.                *)
(*                                                                         *)
(* Every process of the run (the wrapper itself and the child it forks)    *)
(* owns a copy of the program's memory: proc[p] is that copy, one field    *)
(* per C variable, plus the position pc of the process in the code.        *)
(***************************************************************************)
EXTENDS Integers, Sequences, FiniteSets, TLC

VARIABLES proc, in_program_argv, fs, clock, report_lines, sigints_sent

vars == <<proc, in_program_argv, fs, clock, report_lines, sigints_sent>>

Procs == {"parent", "child"}

(***************************************************************************)
(* Bounds of the model.                                                    *)
(***************************************************************************)
MaxArgc == 4
MaxLines == 2
MaxSigints == 1

(***************************************************************************)
(* C strings: a string is the sequence of its characters, CharAt reads the *)
(* terminating NUL at index Len(s) (indices are zero-based, as in C).      *)
(***************************************************************************)
NUL == "\\0"

CharAt(s, k) == IF k < Len(s) THEN s[k + 1] ELSE NUL

RECURSIVE StrNCmpFrom(_, _, _, _)
StrNCmpFrom(s, t, n, k) ==
    IF k >= n THEN TRUE
    ELSE IF CharAt(s, k) # CharAt(t, k) THEN FALSE
    ELSE IF CharAt(s, k) = NUL THEN TRUE
    ELSE StrNCmpFrom(s, t, n, k + 1)

\* strncmp(s, t, n) == 0
StrNCmpEq(s, t, n) == StrNCmpFrom(s, t, n, 0)

Str_output_eq == <<"-", "-", "o", "u", "t", "p", "u", "t", "=">>
Str_dash_o == <<"-", "o">>

Tok_o == <<"-", "o">>
Tok_of == <<"-", "o", "f">>
Tok_output_f == <<"-", "-", "o", "u", "t", "p", "u", "t", "=", "f">>
Tok_g == <<"-", "g">>
Tok_prog == <<"p", "r", "o", "g">>
Tok_empty == <<>>
Tok_perf == <<"p", "e", "r", "f">>
Tok_record == <<"r", "e", "c", "o", "r", "d">>

\* The NULL pointer of an argv slot that calloc() zeroed.
NULLP == <<"NULL">>

SanTokens == {Tok_o, Tok_of, Tok_output_f, Tok_g, Tok_prog, Tok_empty}

in_program_argc == Len(in_program_argv)

(***************************************************************************)
(* The files of /tmp that the run can name: fs[path] is the modification   *)
(* time of the file at path, NoFile when stat() fails there.  clock is the *)
(* time of CLOCK_REALTIME, its tv_sec what time(NULL) returns.             *)
(***************************************************************************)
NoFile == 0 - 1

TempPaths == {"/tmp/perf_7_100_1.dat", "/tmp/perf_7_100_2.dat"}

\* "--output=%s"
OutputArg(path) == Str_output_eq \o <<path>>

\* An int that was declared and never assigned.
INDETERMINATE == 0 - 1000000

(***************************************************************************)
(* The sanitizing copy of in_program_argv[] into new_argv[].               *)
(* new_argv is the calloc()ed array of in_program_argc+4 slots, indexed    *)
(* from 0; accessed is the set of indices of in_program_argv[] the loop    *)
(* read, kept the indices it copied, in the order it copied them.          *)
(***************************************************************************)
\* strncmp(in_program_argv[src_idx], "--output=", 9) == 0
IsOutputEqOption(arg) == StrNCmpEq(arg, Str_output_eq, 9)

\* strncmp(in_program_argv[src_idx], "-o", 2) == 0
IsShortOOption(arg) == StrNCmpEq(arg, Str_dash_o, 2)

ShortOSkip_AlwaysTwo(arg) == 2

\* "-o <file>" skips two elements, "-o<file>" one
ShortOSkip(arg) == IF CharAt(arg, 2) = NUL THEN 2 ELSE 1

StillAfterCopy_Keep(arg, still) == still

\* if (in_program_argv[src_idx] && in_program_argv[src_idx][0] != '-')
StillAfterCopy(arg, still) ==
    IF arg # NULLP /\ CharAt(arg, 0) # "-" THEN 0 ELSE still

NewArgvInit(path) ==
    [k \in 0..(in_program_argc + 3) |->
        IF k = 0 THEN Tok_perf
        ELSE IF k = 1 THEN Tok_record
        ELSE IF k = 2 THEN OutputArg(path)
        ELSE NULLP]

\* One iteration of the while loop, on the memory r of a process.
SanitizeIter(r) ==
    LET arg == in_program_argv[r.src_idx + 1]
        seen == r.accessed \cup {r.src_idx}
    IN  IF r.still_in_perf_record_options = 1 /\ IsOutputEqOption(arg)
        THEN [r EXCEPT !.src_idx = r.src_idx + 1, !.accessed = seen]
        ELSE IF r.still_in_perf_record_options = 1 /\ IsShortOOption(arg)
        THEN [r EXCEPT !.src_idx = r.src_idx + ShortOSkip(arg),
                       !.accessed = seen]
        ELSE [r EXCEPT !.new_argv = [r.new_argv EXCEPT ![r.dest_idx] = arg],
                       !.still_in_perf_record_options =
                           StillAfterCopy(arg, r.still_in_perf_record_options),
                       !.kept = Append(r.kept, r.src_idx),
                       !.dest_idx = r.dest_idx + 1,
                       !.src_idx = r.src_idx + 1,
                       !.accessed = seen]

\* The time of the clock when the run starts.
StartTime == 100

\* The report of a `perf report` that has not been started.
NotStarted == <<[c0 |-> "?", toks |-> <<>>]>>

\* A struct timespec that was declared and never assigned.
NoTime == [tv_sec |-> INDETERMINATE, tv_nsec |-> INDETERMINATE]

\* What a char * that was never assigned points to.
Garbage == "<garbage>"

(***************************************************************************)
(* The memory of a process before main() has done anything.                *)
(***************************************************************************)
ProcInit(handler) ==
    [pc |-> "begin",
     tx |-> "none",
     sa_handler |-> handler,
     newrelic_agent_sighandler |-> "SIG_DFL",
     interrupt_execution |-> 0,
     hpc |-> "none",
     pending |-> FALSE,
     eintr |-> FALSE,
     agent_calls |-> 0,
     intr_pc |-> "none",
     i |-> 0,
     n_candidates |-> 0,
     tmp_exhausted |-> FALSE,
     status |-> INDETERMINATE,
     temp_perf_data_file |-> "",
     program_exit_code |-> INDETERMINATE,
     src_idx |-> 0,
     dest_idx |-> 0,
     still_in_perf_record_options |-> 0,
     new_argv |-> <<>>,
     accessed |-> {},
     kept |-> <<>>,
     execvp_returned |-> FALSE,
     exit_code |-> 0,
     start_time |-> NoTime,
     out_duration |-> NoTime,
     upload_called |-> FALSE,
     total_progr_duration |-> 0,
     line_idx |-> 0,
     percent |-> INDETERMINATE,
     so_object |-> Garbage,
     symbol |-> Garbage,
     attributes |-> <<>>,
     errors |-> {},
     stat_ret |-> 0,
     buf_st_mtime |-> 0,
     current_time |-> 0,
     unlink_calls |-> <<>>]

NoProc == [ProcInit("SIG_DFL") EXCEPT !.pc = "none"]

\* execute_perf_record_and_program() returns code: its locals are gone
\* (new_argv was freed or leaks), the caller stores the code.
ReturnFromExecute(r, code) ==
    [r EXCEPT !.program_exit_code = code,
              !.pc = "segend",
              !.i = 0,
              !.n_candidates = 0,
              !.status = INDETERMINATE,
              !.new_argv = <<>>,
              !.src_idx = 0,
              !.dest_idx = 0,
              !.still_in_perf_record_options = 0,
              !.accessed = {},
              !.kept = <<>>,
              !.start_time = NoTime]

\* upload_perf_report_to_NewRelic() returns: its locals are gone.
ReturnFromUpload(r) ==
    [r EXCEPT !.pc = "cleanup",
              !.total_progr_duration = 0,
              !.line_idx = 0,
              !.percent = INDETERMINATE,
              !.so_object = Garbage,
              !.symbol = Garbage]

(***************************************************************************)
(* while (src_idx < in_program_argc) { ... }  new_argv[dest_idx] = NULL;   *)
(***************************************************************************)
SanitizeStep(p) ==
    /\ proc[p].pc = "sanitize"
    /\ proc[p].hpc = "none"
    /\ proc[p].src_idx < in_program_argc
    /\ proc' = [proc EXCEPT ![p] = SanitizeIter(proc[p])]
    /\ UNCHANGED <<in_program_argv, fs, clock, report_lines, sigints_sent>>

SanitizeEnd(p) ==
    /\ proc[p].pc = "sanitize"
    /\ proc[p].hpc = "none"
    /\ proc[p].src_idx >= in_program_argc
    /\ proc' = [proc EXCEPT ![p].new_argv[proc[p].dest_idx] = NULLP,
                            ![p].pc = "gettime"]
    /\ UNCHANGED <<in_program_argv, fs, clock, report_lines, sigints_sent>>

(***************************************************************************)
(* The sanitizer alone, on every option list of up to MaxArgc elements:    *)
(* the state at line 455, after a temp path was selected and the array     *)
(* allocated.                                                              *)
(***************************************************************************)
ArgvLists(n) == UNION {[1..k -> SanTokens] : k \in 1..n}

AtSanitize(r, path) ==
    [r EXCEPT !.pc = "sanitize",
              !.tx = "begun",
              !.sa_handler = "signal_handler",
              !.status = 1,
              !.n_candidates = 1,
              !.temp_perf_data_file = path,
              !.new_argv = NewArgvInit(path),
              !.src_idx = 0,
              !.dest_idx = 3,
              !.still_in_perf_record_options = 1]

InitSanitize ==
    /\ in_program_argv \in ArgvLists(MaxArgc)
    /\ proc = [p \in Procs |->
                 IF p = "parent"
                 THEN AtSanitize(ProcInit("SIG_DFL"), "/tmp/perf_7_100_1.dat")
                 ELSE NoProc]
    /\ fs = [f \in TempPaths |-> NoFile]
    /\ clock = [tv_sec |-> StartTime, tv_nsec |-> 0]
    /\ report_lines = NotStarted
    /\ sigints_sent = 0

NextSanitize == SanitizeStep("parent") \/ SanitizeEnd("parent")

SpecSanitize == InitSanitize /\ [][NextSanitize]_vars

(***************************************************************************)
(* SIGINT.  A signal sent to a process is pending until it is delivered;   *)
(* while signal_handler runs SIGINT is blocked (sa_flags is 0, no          *)
(* SA_NODEFER), so a signal raised or sent meanwhile stays pending until   *)
(* the handler has returned.  The handler runs on the stack of the main    *)
(* flow: hpc # "none" suspends the main flow.                              *)
(***************************************************************************)
RealHandlers == {"agent_handler"}

\* The processes that run code of this program.
Alive(p) ==
    proc[p].pc \notin {"none", "done", "killed", "crashed", "perf", "exited"}

MainAt(p, where) == proc[p].pc = where /\ proc[p].hpc = "none"

\* A SIGINT is sent to process p (Ctrl-C, kill -INT).
SigintArrives(p) ==
    /\ sigints_sent < MaxSigints
    /\ Alive(p)
    /\ sigints_sent' = sigints_sent + 1
    /\ proc' = [proc EXCEPT ![p].pending = TRUE]
    /\ UNCHANGED <<in_program_argv, fs, clock, report_lines>>

\* A pending SIGINT is delivered while the disposition is still the one the
\* program found: the default action ends the process, SIG_IGN discards the
\* signal, the agent's handler sees it.
DeliverToPrevious(p) ==
    /\ Alive(p)
    /\ proc[p].pending
    /\ proc[p].hpc = "none"
    /\ proc[p].sa_handler # "signal_handler"
    /\ proc' = [proc EXCEPT
          ![p].pending = FALSE,
          ![p].pc = IF proc[p].sa_handler = "SIG_DFL"
                    THEN "killed" ELSE proc[p].pc,
          ![p].agent_calls = IF proc[p].sa_handler \in RealHandlers
                             THEN 1 ELSE proc[p].agent_calls]
    /\ UNCHANGED <<in_program_argv, fs, clock, report_lines, sigints_sent>>

\* if (interrupt_execution == 0) switch ((long)newrelic_agent_sighandler)
\*   case SIG_ERR, SIG_DFL, SIG_IGN: break;  default: raise(sig);
RaisesAgain(flag, previous) ==
    flag = 0 /\ previous \notin {"SIG_ERR", "SIG_DFL", "SIG_IGN"}

\* signal_handler() is entered and runs up to the end of its if: raise(sig)
\* leaves the signal pending, since SIGINT is blocked in the handler.  A
\* wait() the main flow was blocked in will return EINTR (no SA_RESTART).
SignalHandlerEnter(p) ==
    /\ Alive(p)
    /\ proc[p].pending
    /\ proc[p].hpc = "none"
    /\ proc[p].sa_handler = "signal_handler"
    /\ proc' = [proc EXCEPT
          ![p].pending = RaisesAgain(proc[p].interrupt_execution,
                                     proc[p].newrelic_agent_sighandler),
          ![p].eintr = (proc[p].pc = "wait"),
          ![p].hpc = "set_flag"]
    /\ UNCHANGED <<in_program_argv, fs, clock, report_lines, sigints_sent>>

\* interrupt_execution = 1; and the handler returns.  intr_pc remembers
\* where the main flow was when the flag was first set.
SignalHandlerReturn(p) ==
    /\ proc[p].hpc = "set_flag"
    /\ proc' = [proc EXCEPT
          ![p].interrupt_execution = 1,
          ![p].intr_pc = IF proc[p].interrupt_execution = 0
                         THEN proc[p].pc ELSE proc[p].intr_pc,
          ![p].hpc = "none"]
    /\ UNCHANGED <<in_program_argv, fs, clock, report_lines, sigints_sent>>

(***************************************************************************)
(* newrelic_perf_counters_wrapper(), up to the call of                     *)
(* execute_perf_record_and_program().                                      *)
(***************************************************************************)
\* newrelic_transaction_begin() and the naming calls; a negative id returns.
TransactionBegin(p) ==
    /\ MainAt(p, "begin")
    /\ \E ok \in BOOLEAN :
          proc' = [proc EXCEPT ![p].tx = IF ok THEN "begun" ELSE "none",
                               ![p].pc = IF ok THEN "sigsetup" ELSE "done"]
    /\ UNCHANGED <<in_program_argv, fs, clock, report_lines, sigints_sent>>

\* sigaction(SIGINT, NULL, &old); sigaction(SIGINT, &ours, NULL);
InstallHandler(p) ==
    /\ MainAt(p, "sigsetup")
    /\ proc' = [proc EXCEPT
          ![p].newrelic_agent_sighandler = proc[p].sa_handler,
          ![p].sa_handler = "signal_handler",
          ![p].pc = "check281"]
    /\ UNCHANGED <<in_program_argv, fs, clock, report_lines, sigints_sent>>

\* memset(temp_perf_data_file, 0, ...); if (interrupt_execution == 0) call
CheckBeforeRun(p) ==
    /\ MainAt(p, "check281")
    /\ proc' = [proc EXCEPT
          ![p].temp_perf_data_file = "",
          ![p].i = 0,
          ![p].pc = IF proc[p].interrupt_execution = 0
                    THEN "tmp_loop" ELSE "segend"]
    /\ UNCHANGED <<in_program_argv, fs, clock, report_lines, sigints_sent>>

(***************************************************************************)
(* create_a_temp_filename() and its caller's test of the result.           *)
(***************************************************************************)
MaxTempTries == 10

StatFails_Always(path) == TRUE

\* stat(path, &buf) != 0
StatFails(path) == path \notin DOMAIN fs \/ fs[path] = NoFile

\* One iteration of the for loop (or its end), and on a return of 0 the
\* return -1 of the caller.  n_candidates counts the names the call in
\* progress has made, tmp_exhausted remembers that the loop ran to its end.
TempLoop(p) ==
    /\ MainAt(p, "tmp_loop")
    /\ \E path \in TempPaths :
          LET r == proc[p] IN
          proc' = [proc EXCEPT ![p] =
             IF r.i < MaxTempTries /\ r.interrupt_execution = 0
             THEN IF StatFails(path)
                  THEN [r EXCEPT !.temp_perf_data_file = path,
                                 !.n_candidates = 0,
                                 !.i = 0,
                                 !.status = 1,
                                 !.pc = "calloc"]
                  ELSE [r EXCEPT !.temp_perf_data_file = path,
                                 !.n_candidates = r.n_candidates + 1,
                                 !.i = r.i + 1]
             ELSE ReturnFromExecute(
                      [r EXCEPT !.tmp_exhausted = (r.i >= MaxTempTries)],
                      0 - 1)]
    /\ UNCHANGED <<in_program_argv, fs, clock, report_lines, sigints_sent>>

(***************************************************************************)
(* execute_perf_record_and_program() after the temp path.                  *)
(***************************************************************************)
\* new_argv = calloc(in_program_argc+4, sizeof (char *)); and lines 438-455
Calloc(p) ==
    /\ MainAt(p, "calloc")
    /\ \E ok \in BOOLEAN :
          LET r == proc[p] IN
          proc' = [proc EXCEPT ![p] =
             IF ok
             THEN [r EXCEPT !.new_argv = NewArgvInit(r.temp_perf_data_file),
                            !.src_idx = 0,
                            !.dest_idx = 3,
                            !.still_in_perf_record_options = 1,
                            !.pc = "sanitize"]
             ELSE ReturnFromExecute(r, 0 - 2)]
    /\ UNCHANGED <<in_program_argv, fs, clock, report_lines, sigints_sent>>

InterruptedBeforeFork_NotPolled(flag) == FALSE

\* if (interrupt_execution != 0), at line 482
InterruptedBeforeFork(flag) == flag # 0

\* clock_gettime(CLOCK_REALTIME, &start_time);
\* if (interrupt_execution != 0) { free(new_argv); return -3; }
PollBeforeFork(p) ==
    /\ MainAt(p, "gettime")
    /\ LET r == proc[p] IN
       proc' = [proc EXCEPT ![p] =
          IF InterruptedBeforeFork(r.interrupt_execution)
          THEN ReturnFromExecute(r, 0 - 3)
          ELSE [r EXCEPT !.start_time = clock, !.pc = "fork"]]
    /\ UNCHANGED <<in_program_argv, fs, clock, report_lines, sigints_sent>>

\* forked_pid = fork(): on failure return -4; the child is a copy of the
\* parent with no signal pending, and goes on to execvp().
Fork(p) ==
    /\ MainAt(p, "fork")
    /\ p = "parent"
    /\ proc["child"].pc = "none"
    /\ \E ok \in BOOLEAN :
          proc' = IF ok
                  THEN [proc EXCEPT
                          ![p].pc = "wait",
                          !["child"] = [proc[p] EXCEPT !.pc = "exec",
                                                       !.pending = FALSE,
                                                       !.eintr = FALSE]]
                  ELSE [proc EXCEPT ![p] = ReturnFromExecute(proc[p], 0 - 4)]
    /\ UNCHANGED <<in_program_argv, fs, clock, report_lines, sigints_sent>>

\* execvp("perf", new_argv): on success the process is perf; on failure
\* execvp() returns and the child runs on, into the code after the if.
Exec(p) ==
    /\ MainAt(p, "exec")
    /\ \E ok \in BOOLEAN :
          proc' = [proc EXCEPT
             ![p].pc = IF ok THEN "perf" ELSE "after_wait",
             ![p].execvp_returned = ~ok]
    /\ UNCHANGED <<in_program_argv, fs, clock, report_lines, sigints_sent>>

\* How long a run of perf record can take.
RunTimes == {[tv_sec |-> 0, tv_nsec |-> 0],
             [tv_sec |-> 0, tv_nsec |-> 500000000],
             [tv_sec |-> 1, tv_nsec |-> 0]}

\* The clock d later.
Later(t, d) ==
    LET ns == t.tv_nsec + d.tv_nsec IN
    [tv_sec |-> t.tv_sec + d.tv_sec + (ns \div 1000000000),
     tv_nsec |-> ns % 1000000000]

\* The path of the --output=<path> that is new_argv[2].
OutputPath(argv) == argv[2][Len(Str_output_eq) + 1]

\* perf record runs the program, writes the file of its --output= option
\* (or fails before it does) and exits.
PerfRecord(p) ==
    /\ proc[p].pc = "perf"
    /\ \E d \in RunTimes, wrote \in BOOLEAN, code \in {0, 1} :
          /\ clock' = Later(clock, d)
          /\ fs' = IF wrote
                   THEN [fs EXCEPT ![OutputPath(proc[p].new_argv)] =
                                       Later(clock, d).tv_sec]
                   ELSE fs
          /\ proc' = [proc EXCEPT ![p].pc = "exited", ![p].exit_code = code]
    /\ UNCHANGED <<in_program_argv, report_lines, sigints_sent>>

\* WEXITSTATUS(status)
WEXITSTATUS(status) == (status \div 256) % 256

\* What wait() stores for a child that ended: its exit code in bits 8-15,
\* or the number of the signal that ended it (SIGINT 2, SIGSEGV 11).
WaitStatusOf(c) ==
    IF c.pc = "exited" THEN c.exit_code * 256
    ELSE IF c.pc = "killed" THEN 2
    ELSE IF c.pc = "crashed" THEN 11
    ELSE 0

\* wait(&status) returns for the child that ended.
Wait(p) ==
    /\ MainAt(p, "wait")
    /\ proc["child"].pc \in {"exited", "done", "killed", "crashed"}
    /\ proc' = [proc EXCEPT ![p].status = WaitStatusOf(proc["child"]),
                            ![p].eintr = FALSE,
                            ![p].pc = "after_wait"]
    /\ UNCHANGED <<in_program_argv, fs, clock, report_lines, sigints_sent>>

\* wait(&status) returns -1, EINTR: signal_handler ran meanwhile; status
\* keeps what create_a_temp_filename() returned.
WaitInterrupted(p) ==
    /\ MainAt(p, "wait")
    /\ proc[p].eintr
    /\ proc' = [proc EXCEPT ![p].eintr = FALSE, ![p].pc = "after_wait"]
    /\ UNCHANGED <<in_program_argv, fs, clock, report_lines, sigints_sent>>

Duration_NoBorrow(start, end) ==
    [tv_sec |-> end.tv_sec - start.tv_sec,
     tv_nsec |-> end.tv_nsec - start.tv_nsec]

\* out_duration = end_time - start_time, with the borrow of lines 508-511
Duration(start, end) ==
    LET sec == end.tv_sec - start.tv_sec
        nsec == end.tv_nsec - start.tv_nsec
    IN  IF nsec < 0
        THEN [tv_sec |-> sec - 1, tv_nsec |-> nsec + 1000000000]
        ELSE [tv_sec |-> sec, tv_nsec |-> nsec]

\* free(new_argv); if (interrupt_execution != 0) return -3;
\* clock_gettime(&end_time); ...; return WEXITSTATUS(status);
AfterWait(p) ==
    /\ MainAt(p, "after_wait")
    /\ LET r == proc[p] IN
       proc' = [proc EXCEPT ![p] =
          IF r.interrupt_execution # 0
          THEN ReturnFromExecute(r, 0 - 3)
          ELSE ReturnFromExecute(
                  [r EXCEPT !.out_duration = Duration(r.start_time, clock)],
                  WEXITSTATUS(r.status))]
    /\ UNCHANGED <<in_program_argv, fs, clock, report_lines, sigints_sent>>

(***************************************************************************)
(* newrelic_perf_counters_wrapper() after the call.                        *)
(***************************************************************************)
\* errors_in_execute_perf_record[abs(program_exit_code)]
ErrorMessage(code) ==
    IF code = 0 - 1 THEN "Couldn't find a temp filename for perf.data file"
    ELSE IF code = 0 - 2 THEN "calloc() failed"
    ELSE IF code = 0 - 3 THEN "Interrupted by a signal"
    ELSE IF code = 0 - 4 THEN "fork() failed"
    ELSE "0"

\* newrelic_segment_end(); if (interrupt_execution != 0) goto delete;
\* if (program_exit_code < 0 && program_exit_code >= -4) { notice; goto }
SegmentEnd(p) ==
    /\ MainAt(p, "segend")
    /\ LET r == proc[p] IN
       proc' = [proc EXCEPT ![p] =
          IF r.interrupt_execution # 0
          THEN [r EXCEPT !.pc = "cleanup"]
          ELSE IF r.program_exit_code < 0 /\ r.program_exit_code >= 0 - 4
          THEN [r EXCEPT
                  !.errors = r.errors \cup
                     {<<"execute_perf_record_and_program",
                        ErrorMessage(r.program_exit_code)>>},
                  !.pc = "cleanup"]
          ELSE [r EXCEPT !.pc = "check327"]]
    /\ UNCHANGED <<in_program_argv, fs, clock, report_lines, sigints_sent>>

\* if (interrupt_execution == 0 && program_exit_code >= 0)
CheckBeforeUpload(p) ==
    /\ MainAt(p, "check327")
    /\ proc' = [proc EXCEPT ![p].pc =
          IF proc[p].interrupt_execution = 0 /\ proc[p].program_exit_code >= 0
          THEN "upload" ELSE "cleanup"]
    /\ UNCHANGED <<in_program_argv, fs, clock, report_lines, sigints_sent>>

FreshnessWindow == 30

FreshEnough_Inclusive(now, mtime) == now - mtime <= FreshnessWindow

\* current_time - buf.st_mtime < 30
FreshEnough(now, mtime) == now - mtime < FreshnessWindow

\* goto_point_delete_temp_perf_data_file: stat(), time(NULL), unlink(),
\* which can fail (the notice of lines 362-368).
DeleteTempFile(p) ==
    /\ MainAt(p, "cleanup")
    /\ \E unlink_ok \in BOOLEAN :
          LET r == proc[p]
              path == r.temp_perf_data_file
              found == ~StatFails(path)
              mtime == IF found THEN fs[path] ELSE r.buf_st_mtime
              now == IF found THEN clock.tv_sec ELSE r.current_time
              calls == found /\ FreshEnough(now, mtime)
          IN  /\ fs' = IF calls /\ unlink_ok
                       THEN [fs EXCEPT ![path] = NoFile] ELSE fs
              /\ proc' = [proc EXCEPT
                    ![p].stat_ret = IF found THEN 0 ELSE 0 - 1,
                    ![p].buf_st_mtime = mtime,
                    ![p].current_time = now,
                    ![p].unlink_calls =
                        IF calls THEN Append(r.unlink_calls, path)
                        ELSE r.unlink_calls,
                    ![p].errors =
                        IF calls /\ ~unlink_ok
                        THEN r.errors \cup
                               {<<"unlink_temp_perf_data_file", "strerror">>}
                        ELSE r.errors,
                    ![p].pc = "tx_end"]
    /\ UNCHANGED <<in_program_argv, clock, report_lines, sigints_sent>>

\* newrelic_transaction_end(); the wrapper returns and main() returns 0.
TransactionEnd(p) ==
    /\ MainAt(p, "tx_end")
    /\ proc' = [proc EXCEPT ![p].tx = "ended", ![p].pc = "done"]
    /\ UNCHANGED <<in_program_argv, fs, clock, report_lines, sigints_sent>>

(***************************************************************************)
(* upload_perf_report_to_NewRelic().                                       *)
(*                                                                         *)
(* A line of `perf report` is its first character c0 and its tokens, the   *)
(* maximal runs of non-blank characters.  A float holding a percentage is  *)
(* kept in hundredths of a percent, a double holding seconds in            *)
(* milliseconds, and the value printed with "%.06f" in millionths.         *)
(***************************************************************************)
NoFloat == 0 - 1

\* What "%f" converts at the start of a token (hundredths), NoFloat if the
\* token does not start with a number.
FloatOf(tok) ==
    CASE tok = "16.67%" -> 1667
      [] tok = "10.00%" -> 1000
      [] tok = "0.00%" -> 0
      [] tok = "16.67" -> 1667
      [] OTHER -> NoFloat

\* Whether "%%" matches after the number.
PercentSignFollows(tok) == tok \in {"16.67%", "10.00%", "0.00%"}

Line_fxstat == [c0 |-> " ", toks |-> <<"16.67%", "prog", "libc-2.17.so",
                                       "[.]", "__fxstat64">>]
Line_page == [c0 |-> " ", toks |-> <<"10.00%", "prog", "[kernel.kallsyms]",
                                     "[k]", "vm_normal_page">>]
Line_zero == [c0 |-> " ", toks |-> <<"0.00%", "prog", "ld.so", "[.]",
                                     "_start">>]
Line_comment == [c0 |-> "#", toks |-> <<"#", "Overhead", "Command">>]
Line_blank == [c0 |-> "\n", toks |-> <<>>]
Line_text == [c0 |-> "E", toks |-> <<"Error:", "no", "samples">>]
Line_short == [c0 |-> " ", toks |-> <<"10.00%", "prog">>]
Line_nosym == [c0 |-> " ", toks |-> <<"16.67", "prog", "libc-2.17.so">>]

\* The reports of the whole run.
RunReports == {<<>>, <<Line_fxstat>>, <<Line_short, Line_blank>>}

ReportLineSet == {Line_fxstat, Line_page, Line_zero, Line_comment,
                  Line_blank, Line_text, Line_short, Line_nosym}

\* sscanf(buff_line, " %f%% %*s %ms %*s %ms", &percent, &so_object, &symbol):
\* the number of variables it assigned, 0 to 3.
SscanfCount(line) ==
    LET t == line.toks IN
    IF Len(t) < 1 \/ FloatOf(t[1]) = NoFloat THEN 0
    ELSE IF ~PercentSignFollows(t[1]) \/ Len(t) < 3 THEN 1
    ELSE IF Len(t) < 5 THEN 2
    ELSE 3

\* The variables after the sscanf(): an unassigned variable keeps whatever
\* its memory held.
Sscanf(line, r) ==
    LET n == SscanfCount(line) IN
    [r EXCEPT !.percent = IF n >= 1 THEN FloatOf(line.toks[1]) ELSE r.percent,
              !.so_object = IF n >= 2 THEN line.toks[3] ELSE r.so_object,
              !.symbol = IF n >= 3 THEN line.toks[5] ELSE r.symbol]

\* !buff_line || buff_line[0] == '\0' || buff_line[0] == '\n' ||
\* buff_line[0] == '#'
SkippedLine(line) == line.c0 \in {NUL, "\n", "#"}

\* total_progr_duration = tv_sec + (tv_nsec/1000000000), an integer
\* division; in milliseconds.
TotalDuration(d) == (d.tv_sec + (d.tv_nsec \div 1000000000)) * 1000

\* (percent/100) * total_progr_duration as "%.06f" rounds it, in millionths:
\* hundredths of a percent times milliseconds is 10^-7 s.
RelativeDuration(percent, total_ms) == (2 * percent * total_ms + 10) \div 20

Pad6(n) ==
    IF n < 10 THEN "00000" \o ToString(n)
    ELSE IF n < 100 THEN "0000" \o ToString(n)
    ELSE IF n < 1000 THEN "000" \o ToString(n)
    ELSE IF n < 10000 THEN "00" \o ToString(n)
    ELSE IF n < 100000 THEN "0" \o ToString(n)
    ELSE ToString(n)

\* snprintf(relative_duration_str, ..., "%.06f", relative_duration)
FormatDuration(micro) ==
    ToString(micro \div 1000000) \o "." \o Pad6(micro % 1000000)

\* "Custom/ct_%s@%s", symbol, so_object
AttributeName(symbol, so_object) == "Custom/ct_" \o symbol \o "@" \o so_object

IsZeroDuration_Never(str) == FALSE

\* strcmp(relative_duration_str, "0.000000") == 0
IsZeroDuration(str) == str = "0.000000"

\* What the float percent can hold before its first assignment.
PercentGarbage == {0, 2500}

\* What the pipe of popen() will give: one of RunReports, unless the
\* specification started with the report already fixed.
PipeOutputs == IF report_lines = NotStarted THEN RunReports ELSE {report_lines}

\* if (interrupt_execution != 0) return -1; popen(); total_progr_duration
UploadEntry(p) ==
    /\ MainAt(p, "upload")
    /\ \E ok \in BOOLEAN, out \in PipeOutputs :
          LET r == proc[p] IN
          /\ proc' = [proc EXCEPT ![p] =
                IF r.interrupt_execution # 0
                THEN ReturnFromUpload([r EXCEPT !.upload_called = TRUE])
                ELSE IF ~ok
                THEN ReturnFromUpload(
                        [r EXCEPT !.upload_called = TRUE,
                                  !.errors = r.errors \cup
                                      {<<"popen_perf_report", "strerror">>}])
                ELSE [r EXCEPT !.upload_called = TRUE,
                               !.total_progr_duration =
                                   TotalDuration(r.out_duration),
                               !.line_idx = 0,
                               !.pc = "getline"]]
          /\ report_lines' = IF r.interrupt_execution = 0 /\ ok
                             THEN out ELSE report_lines
    /\ UNCHANGED <<in_program_argv, fs, clock, sigints_sent>>

\* The body of the while loop for a line that was not skipped, after the
\* sscanf(): the attribute is added unless the duration prints as 0.000000.
AddAttribute(r, idx) ==
    LET str == FormatDuration(RelativeDuration(r.percent,
                                               r.total_progr_duration))
    IN  IF IsZeroDuration(str) THEN r
        ELSE [r EXCEPT !.attributes = Append(r.attributes,
                 [line |-> idx,
                  name |-> AttributeName(r.symbol, r.so_object),
                  value |-> str])]

\* One turn of while (interrupt_execution == 0 && getline(...) != -1).
\* When sscanf() assigned fewer than three variables the body reads
\* variables that were never assigned and frees pointers that were never
\* allocated or were freed already: the process either goes on with what
\* the memory holds or is ended (SIGSEGV, abort() of free()).
ReadLine(p) ==
    /\ MainAt(p, "getline")
    /\ \E survives \in BOOLEAN, g \in PercentGarbage :
          LET r == proc[p]
              idx == r.line_idx + 1
              line == report_lines[idx]
              next == [r EXCEPT !.line_idx = idx]
              scanned == Sscanf(line, next)
              read == IF scanned.percent = INDETERMINATE
                      THEN [scanned EXCEPT !.percent = g] ELSE scanned
          IN  proc' = [proc EXCEPT ![p] =
                 IF r.interrupt_execution # 0 \/ r.line_idx >= Len(report_lines)
                 THEN [r EXCEPT !.pc = "pclose"]
                 ELSE IF SkippedLine(line) THEN next
                 ELSE IF SscanfCount(line) = 3 \/ survives
                 THEN AddAttribute(read, idx)
                 ELSE [next EXCEPT !.pc = "crashed"]]
    /\ UNCHANGED <<in_program_argv, fs, clock, report_lines, sigints_sent>>

\* free(buff_line); pclose(): a failure is noticed, return -2.
PClose(p) ==
    /\ MainAt(p, "pclose")
    /\ \E ok \in BOOLEAN :
          proc' = [proc EXCEPT ![p] = ReturnFromUpload(
             [proc[p] EXCEPT !.errors =
                 IF ok THEN proc[p].errors
                 ELSE proc[p].errors \cup
                        {<<"pclose_perf_report", "strerror">>}])]
    /\ UNCHANGED <<in_program_argv, fs, clock, report_lines, sigints_sent>>

(***************************************************************************)
(* The whole run: main() calls newrelic_perf_counters_wrapper() once.      *)
(* The handler of SIGINT the program finds is the default, SIG_IGN or one  *)
(* the agent installed in newrelic_init(); each temp path is free or holds *)
(* a file of some age; `perf report` prints one of a few reports.          *)
(***************************************************************************)
InitAges == {5, 30, 31}

Init ==
    /\ in_program_argv = <<Tok_of, Tok_prog>>
    /\ \E h \in {"SIG_DFL", "SIG_IGN", "agent_handler"} :
          proc = [p \in Procs |->
                    IF p = "parent" THEN ProcInit(h) ELSE NoProc]
    /\ fs \in [TempPaths -> {NoFile} \cup {StartTime - a : a \in InitAges}]
    /\ clock = [tv_sec |-> StartTime, tv_nsec |-> 0]
    /\ report_lines = NotStarted
    /\ sigints_sent = 0

Next ==
    \E p \in Procs :
        \/ SigintArrives(p)
        \/ DeliverToPrevious(p)
        \/ SignalHandlerEnter(p)
        \/ SignalHandlerReturn(p)
        \/ TransactionBegin(p)
        \/ InstallHandler(p)
        \/ CheckBeforeRun(p)
        \/ TempLoop(p)
        \/ Calloc(p)
        \/ SanitizeStep(p)
        \/ SanitizeEnd(p)
        \/ PollBeforeFork(p)
        \/ Fork(p)
        \/ Exec(p)
        \/ PerfRecord(p)
        \/ Wait(p)
        \/ WaitInterrupted(p)
        \/ AfterWait(p)
        \/ SegmentEnd(p)
        \/ CheckBeforeUpload(p)
        \/ UploadEntry(p)
        \/ ReadLine(p)
        \/ PClose(p)
        \/ DeleteTempFile(p)
        \/ TransactionEnd(p)

Spec == Init /\ [][Next]_vars

(***************************************************************************)
(* The report phase alone, on every report of up to MaxLines lines and a   *)
(* few measured durations: the state at the call of line 336, which is     *)
(* reached with the flag clear and an exit code >= 0.                      *)
(***************************************************************************)
ReportsUpTo(n) == UNION {[1..k -> ReportLineSet] : k \in 0..n}

DurationSet ==
    {[tv_sec |-> s, tv_nsec |-> ns] : s \in {0, 3}, ns \in {0, 500000000}}

AtUpload(r, path, d) ==
    [AtSanitize(r, path) EXCEPT
        !.pc = "upload",
        !.new_argv = <<>>,
        !.dest_idx = 0,
        !.still_in_perf_record_options = 0,
        !.start_time = [tv_sec |-> StartTime, tv_nsec |-> 0],
        !.out_duration = d,
        !.status = 0,
        !.program_exit_code = 0]

InitReport ==
    /\ in_program_argv = <<Tok_prog>>
    /\ \E d \in DurationSet :
          /\ proc = [p \in Procs |->
                IF p = "parent"
                THEN AtUpload(ProcInit("SIG_DFL"), "/tmp/perf_7_100_1.dat", d)
                ELSE [NoProc EXCEPT !.pc = "exited"]]
          /\ clock = Later([tv_sec |-> StartTime, tv_nsec |-> 0], d)
          /\ fs = [f \in TempPaths |->
                     IF f = "/tmp/perf_7_100_1.dat"
                     THEN StartTime + d.tv_sec ELSE NoFile]
    /\ report_lines \in ReportsUpTo(MaxLines)
    /\ sigints_sent = 0

NextReport ==
    \/ SigintArrives("parent")
    \/ SignalHandlerEnter("parent")
    \/ SignalHandlerReturn("parent")
    \/ UploadEntry("parent")
    \/ ReadLine("parent")
    \/ PClose("parent")

SpecReport == InitReport /\ [][NextReport]_vars

(***************************************************************************)
(* The measurement alone, lines 480-513: the state at line 480, with the   *)
(* clock at any point of its second.  CLOCK_REALTIME is the clock of the   *)
(* system: while perf runs it can be set, forward or backward.             *)
(***************************************************************************)
NsecSet == {0, 1, 500000000, 999999999}

StartTimes == {[tv_sec |-> StartTime, tv_nsec |-> ns] : ns \in NsecSet}

ClockSettings ==
    {[tv_sec |-> s, tv_nsec |-> ns] :
        s \in {StartTime - 1, StartTime, StartTime + 1}, ns \in NsecSet}

\* The clock of the system is set while perf record runs.
ClockAdjusted(p) ==
    /\ proc[p].pc = "perf"
    /\ \E t \in ClockSettings : t # clock /\ clock' = t
    /\ UNCHANGED <<proc, in_program_argv, fs, report_lines, sigints_sent>>

AtGettime(r, path) ==
    [AtSanitize(r, path) EXCEPT
        !.pc = "gettime",
        !.new_argv = [NewArgvInit(path) EXCEPT ![3] = Tok_prog,
                                                 ![4] = NULLP],
        !.src_idx = 1,
        !.dest_idx = 4,
        !.still_in_perf_record_options = 0]

InitDuration ==
    /\ in_program_argv = <<Tok_prog>>
    /\ proc = [p \in Procs |->
                 IF p = "parent"
                 THEN AtGettime(ProcInit("SIG_DFL"), "/tmp/perf_7_100_1.dat")
                 ELSE NoProc]
    /\ fs = [f \in TempPaths |-> NoFile]
    /\ clock \in StartTimes
    /\ report_lines = NotStarted
    /\ sigints_sent = 0

NextDuration ==
    \E p \in Procs :
        \/ PollBeforeFork(p)
        \/ Fork(p)
        \/ Exec(p)
        \/ ClockAdjusted(p)
        \/ PerfRecord(p)
        \/ Wait(p)
        \/ AfterWait(p)

SpecDuration == InitDuration /\ [][NextDuration]_vars

(***************************************************************************)
(* Claims about the sanitizer, checked under SpecSanitize.                 *)
(***************************************************************************)
HasPrefix(s, t) == Len(s) >= Len(t) /\ SubSeq(s, 1, Len(t)) = t

\* The forms --output=X, -o and -oX.
OutputForm(arg) == HasPrefix(arg, Str_output_eq) \/ HasPrefix(arg, Str_dash_o)

StartsWithDash(arg) == HasPrefix(arg, <<"-">>)

\* The index (from 0) of the first non-dash token, in_program_argc if none.
FirstNonDash ==
    LET nd == {j \in 0..(in_program_argc - 1) :
                  ~StartsWithDash(in_program_argv[j + 1])}
    IN  IF nd = {} THEN in_program_argc
        ELSE CHOOSE j \in nd : \A k \in nd : j <= k

KeptSet(r) == {r.kept[j] : j \in 1..Len(r.kept)}

SanitizeFinished(r) == r.pc = "gettime"

\* C1: when the loop has ended, new_argv[] holds perf, record and the
\* tool's own --output=<temp path>, then elements of the input in their
\* original order and a NULL; no element kept from before the first non-dash
\* token is --output=X, -o or -oX; every element left out is such an option
\* or the value that follows a bare -o that was left out, and none is left
\* out after a non-dash element was kept; and the loop never read
\* in_program_argv[] at an index >= in_program_argc (also not for a list
\* that ends in a bare -o).
C1_SanitizerDropsOutputOptions ==
    LET r == proc["parent"]
        n == in_program_argc
    IN  /\ r.accessed \subseteq 0..(n - 1)
        /\ SanitizeFinished(r) =>
            /\ r.new_argv[0] = Tok_perf
            /\ r.new_argv[1] = Tok_record
            /\ r.new_argv[2] = OutputArg(r.temp_perf_data_file)
            /\ r.dest_idx = 3 + Len(r.kept)
            /\ r.new_argv[r.dest_idx] = NULLP
            /\ \A j \in 1..Len(r.kept) :
                  /\ r.new_argv[2 + j] = in_program_argv[r.kept[j] + 1]
                  /\ j > 1 => r.kept[j - 1] < r.kept[j]
                  /\ r.kept[j] < FirstNonDash
                        => ~OutputForm(in_program_argv[r.kept[j] + 1])
            /\ \A j \in (0..(n - 1)) \ KeptSet(r) :
                  /\ \/ OutputForm(in_program_argv[j + 1])
                     \/ /\ j > 0
                        /\ in_program_argv[j] = Tok_o
                        /\ (j - 1) \notin KeptSet(r)
                  /\ \A k \in KeptSet(r) :
                        k < j => StartsWithDash(in_program_argv[k + 1])

\* C1's case: a list that ends in a bare -o, which the loop left out after
\* it had copied something.
C1_Witness ==
    LET r == proc["parent"]
        n == in_program_argc
    IN  /\ SanitizeFinished(r)
        /\ in_program_argv[n] = Tok_o
        /\ (n - 1) \notin KeptSet(r)
        /\ r.src_idx = n + 1
        /\ Len(r.kept) >= 1

\* C2: when the loop has ended, from the first element it read that does not
\* start with a dash on, every element of the input (also -o, -oX and
\* --output=X) is in new_argv[], unchanged, in order, up to the final NULL.
C2_PrefixOnly ==
    LET r == proc["parent"]
        n == in_program_argc
        nd == {k \in r.accessed : ~StartsWithDash(in_program_argv[k + 1])}
    IN  SanitizeFinished(r) =>
            \A k \in nd : \A j \in k..(n - 1) :
                /\ j \in KeptSet(r)
                /\ r.new_argv[r.dest_idx - (n - j)] = in_program_argv[j + 1]

\* C2's case: an output option that follows a kept non-dash element and was
\* copied.
C2_Witness ==
    LET r == proc["parent"]
        n == in_program_argc
    IN  /\ SanitizeFinished(r)
        /\ \E k, j \in KeptSet(r) :
              /\ k < j
              /\ ~StartsWithDash(in_program_argv[k + 1])
              /\ in_program_argv[j + 1] \in {Tok_o, Tok_of, Tok_output_f}

(***************************************************************************)
(* Claims about the whole run, checked under Spec.                         *)
(***************************************************************************)
\* C3: create_a_temp_filename() returns 1 only with a path at which stat()
\* found no file, it makes at most 10 names, and when the loop has rejected
\* 10 names the caller returns -1 and no child is ever forked.
C3_TempPathFresh ==
    \A p \in Procs :
        LET r == proc[p] IN
        /\ r.pc = "calloc" =>
              /\ r.status = 1
              /\ r.temp_perf_data_file \in TempPaths
              /\ fs[r.temp_perf_data_file] = NoFile
        /\ r.n_candidates <= 10
        /\ r.i <= 10
        /\ r.tmp_exhausted =>
              /\ r.program_exit_code = 0 - 1
              /\ proc["child"].pc = "none"
              /\ fs[r.temp_perf_data_file] # NoFile \/ r.pc \in {"tx_end", "done"}

\* C3's case: all ten names collided and the wrapper has finished.
C3_Witness ==
    /\ proc["parent"].tmp_exhausted
    /\ proc["parent"].pc = "done"
    /\ proc["parent"].program_exit_code = 0 - 1

\* The positions of the main flow from the installation of the handler up
\* to (not including) the call of fork().
PreForkPcs == {"check281", "tmp_loop", "calloc", "sanitize", "gettime", "fork"}

\* No child, no report phase, and the run is not stuck or ended before
\* newrelic_transaction_end().
SkipsExecution(r) ==
    /\ proc["child"].pc = "none"
    /\ ~r.upload_called
    /\ r.pc \notin {"wait", "exec", "perf", "upload", "getline", "pclose",
                    "killed", "crashed"}
    /\ r.pc = "done" => r.tx = "ended"

\* C4 as stated: if the flag is set at any point after the handler is
\* installed and before fork(), the profiler is never forked, the report is
\* never uploaded and the transaction is still ended.
C4_InterruptBeforeForkSkips ==
    proc["parent"].intr_pc \in PreForkPcs => SkipsExecution(proc["parent"])

\* C4 amended: the same, for a flag that is set before the check of line 482
\* is made, the last one ahead of fork().
C4_InterruptBeforePollSkips ==
    proc["parent"].intr_pc \in (PreForkPcs \ {"fork"})
        => SkipsExecution(proc["parent"])

\* C4's case: the flag was set while the argument vector was being built,
\* and the run has ended its transaction.
C4_Witness ==
    /\ proc["parent"].intr_pc = "sanitize"
    /\ proc["parent"].pc = "done"
    /\ proc["parent"].tx = "ended"

\* C5: when fork() failed or execvp() returned, and no process was
\* interrupted, then once every process has finished an error was noticed
\* to New Relic, no process has called upload_perf_report_to_NewRelic(),
\* and the parent has made its cleanup and ended its transaction.
C5_SpawnFailureAborts ==
    LET par == proc["parent"]
        ch == proc["child"]
    IN  ( /\ par.pc = "done"
          /\ par.tx # "none"
          /\ ch.pc \in {"none", "done"}
          /\ par.program_exit_code = 0 - 4 \/ ch.execvp_returned
          /\ par.interrupt_execution = 0
          /\ ch.interrupt_execution = 0 )
        => /\ \E e \in par.errors \cup ch.errors :
                 e[1] = "execute_perf_record_and_program"
           /\ ~par.upload_called
           /\ ~ch.upload_called
           /\ par.tx = "ended"

\* C6: when signal_handler() has handled a SIGINT and the handler found at
\* installation was a real one, that handler has seen a SIGINT too.
C6_PreviousHandlerObserves ==
    \A p \in Procs :
        LET r == proc[p] IN
        ( /\ r.interrupt_execution = 1
          /\ r.hpc = "none"
          /\ ~r.pending
          /\ r.newrelic_agent_sighandler \in RealHandlers )
        => r.agent_calls >= 1

\* C7: the step at goto_point_delete_temp_perf_data_file calls unlink() if
\* and only if a file is at temp_perf_data_file and the time of the clock
\* minus its modification time is less than 30: not for a file of 31
\* seconds or more, and for one of 5 seconds; and it unlinks nothing else.
C7_UnlinkOnlyFresh ==
    [][\A p \in Procs :
          (proc[p].pc = "cleanup" /\ proc'[p].pc # "cleanup") =>
              LET path == proc[p].temp_perf_data_file
                  exists == path \in DOMAIN fs /\ fs[path] # NoFile
                  age == clock.tv_sec - fs[path]
                  called == proc'[p].unlink_calls # proc[p].unlink_calls
              IN  /\ called <=> (exists /\ age < 30)
                  /\ (exists /\ age >= 31) => ~called
                  /\ (exists /\ age = 5) => called
                  /\ called =>
                        proc'[p].unlink_calls =
                            Append(proc[p].unlink_calls, path)
                  /\ \A f \in DOMAIN fs :
                        fs'[f] # fs[f] => (f = path /\ called)
      ]_vars

\* C7's case: a file modified 5 seconds ago was unlinked.
C7_Witness ==
    \E p \in Procs :
        /\ proc[p].pc = "tx_end"
        /\ proc[p].stat_ret = 0
        /\ proc[p].current_time - proc[p].buf_st_mtime = 5
        /\ proc[p].unlink_calls = <<proc[p].temp_perf_data_file>>
        /\ fs[proc[p].temp_perf_data_file] = NoFile

(***************************************************************************)
(* Claims about the report phase, checked under SpecReport.                *)
(***************************************************************************)
\* The attributes the process has added, as a set.
Attributes(r) == {r.attributes[k] : k \in 1..Len(r.attributes)}

\* (percent/100) x (seconds plus sub-second remainder) to six decimals, in
\* millionths, for a remainder of whole milliseconds.
ClaimedDuration(percent, d) ==
    LET ms == d.tv_sec * 1000 + d.tv_nsec \div 1000000
    IN  (2 * percent * ms + 10) \div 20

\* C8: the value of every attribute added for a line with all three fields
\* is (percent/100) x total duration to six decimals, the total being the
\* seconds plus the sub-second remainder of the measured duration, and its
\* name holds <symbol>@<module>.
C8_ValueIsPercentOfDuration ==
    LET r == proc["parent"] IN
    \A a \in Attributes(r) :
        LET line == report_lines[a.line] IN
        SscanfCount(line) = 3 =>
            /\ a.value = FormatDuration(
                            ClaimedDuration(FloatOf(line.toks[1]),
                                            r.out_duration))
            /\ a.name = "Custom/ct_" \o line.toks[5] \o "@" \o line.toks[3]

\* C9: an attribute is added only for a line that is not empty, does not
\* begin with a newline or #, and whose duration does not print as
\* 0.000000 (nor would with the sub-second remainder counted, when the line
\* has all three fields); and at most one per line, in the order of the
\* lines.
C9_OnlyNonZeroDataLines ==
    LET r == proc["parent"] IN
    /\ \A k \in 1..Len(r.attributes) :
          LET a == r.attributes[k]
              line == report_lines[a.line]
          IN  /\ a.line \in 1..Len(report_lines)
              /\ k > 1 => r.attributes[k - 1].line < a.line
              /\ line.c0 \notin {NUL, "\n", "#"}
              /\ line.toks # <<>>
              /\ a.value # "0.000000"
              /\ SscanfCount(line) = 3 =>
                    ClaimedDuration(FloatOf(line.toks[1]), r.out_duration) # 0

\* C9's case: the loop has read a report of a line whose duration is zero
\* and a line with a duration, and added one attribute, for the second.
C9_Witness ==
    LET r == proc["parent"] IN
    /\ r.pc = "pclose"
    /\ report_lines = <<Line_zero, Line_fxstat>>
    /\ r.line_idx = 2
    /\ r.out_duration.tv_sec = 3
    /\ Len(r.attributes) = 1
    /\ r.attributes[1].line = 2

\* C10: a line that sscanf() cannot split into its three fields adds no
\* attribute and does not end the process.
C10_MalformedLineSkipped ==
    LET r == proc["parent"] IN
    /\ r.pc # "crashed"
    /\ \A a \in Attributes(r) : SscanfCount(report_lines[a.line]) = 3

(***************************************************************************)
(* Claims about the measurement, checked under SpecDuration.               *)
(***************************************************************************)
\* C11: in every step in which execute_perf_record_and_program() computes
\* the duration from a start and an end time with nanoseconds in [0, 10^9),
\* the tv_nsec it stores is in [0, 10^9), a whole second is borrowed exactly
\* when the raw difference of the nanoseconds is negative, and
\* tv_sec * 10^9 + tv_nsec is end - start in nanoseconds.
C11_DurationNormalised ==
    [][\A p \in Procs :
          ( /\ proc[p].pc = "after_wait"
            /\ proc'[p].pc = "segend"
            /\ proc'[p].program_exit_code >= 0
            /\ proc[p].start_time.tv_nsec \in 0..999999999
            /\ clock.tv_nsec \in 0..999999999 ) =>
              LET start == proc[p].start_time
                  d == proc'[p].out_duration
                  raw == clock.tv_nsec - start.tv_nsec
                  borrowed == (clock.tv_sec - start.tv_sec) - d.tv_sec
              IN  /\ d.tv_nsec \in 0..999999999
                  /\ borrowed = IF raw < 0 THEN 1 ELSE 0
                  /\ d.tv_nsec - raw = borrowed * 1000000000
      ]_vars

\* C11's case: the end time has fewer nanoseconds than the start time, and
\* the duration of half a second was stored with a second borrowed.
C11_Witness ==
    LET r == proc["parent"] IN
    /\ r.pc = "segend"
    /\ r.program_exit_code >= 0
    /\ clock = [tv_sec |-> StartTime + 1, tv_nsec |-> 499999999]
    /\ r.out_duration = [tv_sec |-> 0, tv_nsec |-> 500000000]

(***************************************************************************)
(* Claims about the codes of execute_perf_record_and_program(), checked    *)
(* under Spec.                                                             *)
(***************************************************************************)
\* The positions of the main flow inside execute_perf_record_and_program().
ExecutePcs == {"tmp_loop", "calloc", "sanitize", "gettime", "fork", "exec",
               "wait", "after_wait"}

\* C12: in every step in which execute_perf_record_and_program() returns,
\* the code is -1 exactly when the loop of create_a_temp_filename() ran out
\* of its 10 tries, -2 exactly when calloc() failed, -3 exactly when a test
\* of the flag found it set, -4 exactly when fork() failed, and otherwise
\* the exit status, in 0..255, of the child that wait() reaped; and every
\* notice the wrapper sends for a code carries the message of its condition.
C12_OneCodePerCondition ==
    [][\A p \in Procs :
          LET r == proc[p]
              code == proc'[p].program_exit_code
              no_path == r.pc = "tmp_loop" /\ r.i >= 10
              no_memory == r.pc = "calloc"
              interrupted == /\ r.pc \in {"tmp_loop", "gettime", "after_wait"}
                             /\ r.interrupt_execution # 0
                             /\ ~no_path
              no_fork == r.pc = "fork"
          IN  /\ (r.pc \in ExecutePcs /\ proc'[p].pc = "segend") =>
                    /\ code = 0 - 1 <=> no_path
                    /\ code = 0 - 2 <=> no_memory
                    /\ code = 0 - 3 <=> interrupted
                    /\ code = 0 - 4 <=> no_fork
                    /\ code \notin {0 - 1, 0 - 2, 0 - 3, 0 - 4} =>
                          /\ p = "parent"
                          /\ proc["child"].pc = "exited"
                          /\ code = proc["child"].exit_code
                          /\ code \in 0..255
              /\ (r.pc = "segend" /\ proc'[p].errors # r.errors) =>
                    proc'[p].errors \ r.errors =
                       {<<"execute_perf_record_and_program",
                          CASE r.program_exit_code = 0 - 1 ->
                                 "Couldn't find a temp filename for perf.data file"
                            [] r.program_exit_code = 0 - 2 -> "calloc() failed"
                            [] r.program_exit_code = 0 - 3 ->
                                 "Interrupted by a signal"
                            [] r.program_exit_code = 0 - 4 -> "fork() failed"
                            [] OTHER -> "none">>}
      ]_vars

(***************************************************************************)
(* Claims about the ownership of the temp path, checked under Spec.        *)
(***************************************************************************)
\* C13: in every step in which the wrapper calls unlink(), the path is one
\* that create_a_temp_filename() returned with success in this run (the
\* call was made and did not end in the -1 of its caller), and the file is
\* not one that was there before the run started.
C13_UnlinkOnlyOwnPath ==
    [][\A p \in Procs :
          proc'[p].unlink_calls # proc[p].unlink_calls =>
              LET path == proc[p].temp_perf_data_file IN
              /\ proc[p].program_exit_code \notin {0 - 1, INDETERMINATE}
              /\ ~proc[p].tmp_exhausted
              /\ fs[path] >= StartTime
      ]_vars

====
